---- MODULE Spec2Model ----
(***************************************************************************)
(* koukku: the update pipeline of src/exec.rs and its wiring in            *)
(* src/main.rs.  A channel of repository identifiers feeds one executor    *)
(* thread, which resolves each identifier to a project, synchronises the   *)
(* project's working directory with git and runs the post-update command   *)
(* when the synchronisation reported a change.                             *)
(*                                                                         *)
(* Every subprocess is modelled in two phases, as Command::output does it: *)
(* the child is spawned (or the launch fails with an I/O error) and the    *)
(* caller then blocks until the child exits.  What git does to a working   *)
(* directory is the environment: a git command that exits zero has its     *)
(* documented effect, one that exits non-zero leaves the directory as it   *)
(* was.  Revisions are numbers; the upstream repository only moves forward.*)
(***************************************************************************)
EXTENDS Integers, Sequences, FiniteSets, TLC

\* ------------------------------------------------------------------ bounds
MaxSends == 2
MaxCommit == 1

\* ----------------------------------------------------------- configuration
Location == "/srv/repos"
GitPath == "git"
DefaultBranch == "master"

ProjectIds == {"svc", "web"}
UnknownId == "nope"
Identifiers == ProjectIds \cup {UnknownId}
Producers == {"h1", "h2"}   \* the listener's handler threads

Project(id) ==
  [id |-> id,
   repo |-> IF id = "svc" THEN "acme/svc" ELSE "acme/web",
   branch |-> "deploy",
   command |-> IF id = "svc" THEN "./deploy.sh" ELSE "./build.sh"]

Conf == [location |-> Location, gitpath |-> GitPath,
         projects |-> {Project(id) : id \in ProjectIds}]

NoProject == [id |-> "", repo |-> "", branch |-> "", command |-> ""]
NoPath == <<>>

\* -------------------------------------------------------- subprocess output
ExitCodes == {1, 128}
BadUtf8 == "<non-utf8 bytes>"
StderrBytes == {"fatal: error", BadUtf8}
Revisions == 0..MaxCommit

VARIABLES
  queue,      \* the channel: identifiers sent and not yet received
  sent,       \* history: every identifier in its order of arrival
  received,   \* history: every identifier recv() returned, in order
  closed,     \* TRUE once every Sender is dropped
  pc,         \* the executor's position
  blocked,    \* TRUE while the executor waits in Command::output
  cur,        \* repo: the identifier run() was called with
  nUpdates,   \* history: number of calls of run()
  running,    \* the child processes alive
  exists,     \* exists[p]: location/p exists
  head,       \* head[p]: the branch checked out in location/p
  local,      \* local[p]: tip of the tracked branch in location/p
  remoteRef,  \* remoteRef[p]: the remote-tracking tip (@{u}) in location/p
  upstream,   \* upstream[p]: tip of the branch on github
  revLocal,   \* git_remote_changed: local, the stdout of rev-parse @
  revRemote,  \* git_remote_changed: remote, the stdout of rev-parse @{u}
  changed,    \* has_changed
  steps,      \* history: the run() calls of the current update
  result,     \* what update_repo returned and run() logged
  lastOut,    \* history: the Output of the child that exited last in this update
  pre,        \* history: exists, head and local when the update started
  stale,      \* history: stale[p]: the commits brought into location/p
              \* for which the command has not run successfully since
  nonUtf8     \* input: the paths for which path.to_str() is None

vars == <<queue, sent, received, closed, pc, blocked, cur, nUpdates, running,
          exists, head, local, remoteRef, upstream, revLocal, revRemote, changed,
          steps, result, lastOut, pre, stale, nonUtf8>>

fsVars == <<exists, head, local, remoteRef>>
chanVars == <<queue, sent, received, closed>>

NoOutput == [status |-> 0, stdout |-> 0, stderr |-> ""]

NoMark == [kind |-> "", tip |-> 0]

\* ------------------------------------------------------------ pure helpers
\* Result<()> / Error: the reason and, for a failed command, its name, exit
\* status and stderr text ("Command {} exited with status {}: {}").
OkResult == [reason |-> "Ok", cmd |-> "", status |-> 0, text |-> ""]
NoResult == [reason |-> "", cmd |-> "", status |-> 0, text |-> ""]
RecvError == [reason |-> "RecvError", cmd |-> "", status |-> 0, text |-> ""]
AppError(reason, text) == [reason |-> reason, cmd |-> "", status |-> 0, text |-> text]
IoError(cmd) == [reason |-> "Io", cmd |-> "", status |-> 0, text |-> ""]

\* str::from_utf8(&out.stderr).unwrap_or("[invalid string]")
Utf8OrPlaceholder(bytes) == IF bytes = BadUtf8 THEN "[invalid string]" ELSE bytes

OutputToError(cmd, out) ==
  [reason |-> "CommandFailed", cmd |-> cmd, status |-> out.status,
   text |-> Utf8OrPlaceholder(out.stderr)]

\* mutant: the exit status is not looked at
NonZeroToErrorIgnored(cmd, out) ==
  [ok |-> TRUE, stdout |-> out.stdout, err |-> NoResult]

\* mutant: a rev-parse that fails counts as having printed nothing
NonZeroToErrorButRevParse(cmd, out) ==
  IF out.status = 0 \/ cmd = "git rev-parse"
  THEN [ok |-> TRUE, stdout |-> out.stdout, err |-> NoResult]
  ELSE [ok |-> FALSE, stdout |-> out.stdout, err |-> OutputToError(cmd, out)]

\* Ok(out.stdout) when the status is success, Err(output_to_error) otherwise
NonZeroToError(cmd, out) ==
  IF out.status = 0
  THEN [ok |-> TRUE, stdout |-> out.stdout, err |-> NoResult]
  ELSE [ok |-> FALSE, stdout |-> out.stdout, err |-> OutputToError(cmd, out)]

\* mutant: an unknown identifier falls back to some configured project
GetProjectOrAny(conf, repo) ==
  IF \E pr \in conf.projects : pr.id = repo
  THEN CHOOSE pr \in conf.projects : pr.id = repo
  ELSE CHOOSE pr \in conf.projects : TRUE

\* self.conf.get_project(repo).ok_or(InvalidRepository)
GetProject(conf, repo) ==
  IF \E pr \in conf.projects : pr.id = repo
  THEN CHOOSE pr \in conf.projects : pr.id = repo
  ELSE NoProject

\* Path::new(location).join(&project.id)
ProjectPath(location, id) == <<location, id>>

\* mutant: the path is converted lossily, the conversion never fails
PathToStrLossy(path) == TRUE

\* path.to_str(): None for a path that is not valid UTF-8
PathToStrOk(path) == path \notin nonUtf8

\* "https://github.com/{}.git"
GithubUrl(repo) == <<"https://github.com/", repo, ".git">>

GitSteps == {"clone", "clone_checkout", "checkout", "remote_update",
             "rev_parse_local", "rev_parse_upstream", "pull"}
Steps == GitSteps \cup {"command"}

\* mutant: every update starts with the clone
FirstStepAlwaysClone(pathExists) == "clone"

\* update_repo: if path.exists() { checkout .. } else { clone .. }
FirstStep(pathExists) == IF pathExists THEN "checkout" ELSE "clone"

\* mutant: every update counts as a change
RemoteChangedAlways(l, r) == TRUE

\* mutant: the comparison is inverted
RemoteChangedInverted(l, r) == l = r

\* local != remote
RemoteChanged(l, r) == l # r

\* mutant: the decision is taken from the tips as they are after the pull
ChangedAfterRecomputed(step, was, l, stdout) ==
  CASE step = "clone_checkout" -> TRUE
    [] step = "rev_parse_upstream" -> RemoteChanged(l, stdout)
    [] step = "pull" -> FALSE
    [] OTHER -> was

\* has_changed as it stands once `step` has returned Ok(stdout)
ChangedAfter(step, was, l, stdout) ==
  CASE step = "clone_checkout" -> TRUE
    [] step = "rev_parse_upstream" -> RemoteChanged(l, stdout)
    [] OTHER -> was

\* mutant: the fresh clone is not followed by the checkout
NextStepNoCheckout(step, hasChanged) ==
  CASE step = "clone" -> "command"
    [] step = "clone_checkout" -> IF hasChanged THEN "command" ELSE "done"
    [] step = "checkout" -> "remote_update"
    [] step = "remote_update" -> "rev_parse_local"
    [] step = "rev_parse_local" -> "rev_parse_upstream"
    [] step = "rev_parse_upstream" -> "pull"
    [] step = "pull" -> IF hasChanged THEN "command" ELSE "done"
    [] OTHER -> "done"

\* mutant: the pull comes first, the comparison after it
NextStepPullFirst(step, hasChanged) ==
  CASE step = "clone" -> "clone_checkout"
    [] step = "clone_checkout" -> IF hasChanged THEN "command" ELSE "done"
    [] step = "checkout" -> "pull"
    [] step = "pull" -> "remote_update"
    [] step = "remote_update" -> "rev_parse_local"
    [] step = "rev_parse_local" -> "rev_parse_upstream"
    [] step = "rev_parse_upstream" -> IF hasChanged THEN "command" ELSE "done"
    [] OTHER -> "done"

\* mutant: the command is run as soon as a change is seen, the pull after it
NextStepCommandBeforePull(step, hasChanged) ==
  CASE step = "clone" -> "clone_checkout"
    [] step = "clone_checkout" -> IF hasChanged THEN "command" ELSE "done"
    [] step = "checkout" -> "remote_update"
    [] step = "remote_update" -> "rev_parse_local"
    [] step = "rev_parse_local" -> "rev_parse_upstream"
    [] step = "rev_parse_upstream" -> IF hasChanged THEN "command" ELSE "pull"
    [] step = "command" -> "pull"
    [] OTHER -> "done"

\* mutant: the command is run after every pull
NextStepAlwaysCommand(step, hasChanged) ==
  CASE step = "clone" -> "clone_checkout"
    [] step = "clone_checkout" -> IF hasChanged THEN "command" ELSE "done"
    [] step = "checkout" -> "remote_update"
    [] step = "remote_update" -> "rev_parse_local"
    [] step = "rev_parse_local" -> "rev_parse_upstream"
    [] step = "rev_parse_upstream" -> "pull"
    [] step = "pull" -> "command"
    [] OTHER -> "done"

\* mutant: the post-update command is run again after it returned
NextStepCommandAgain(step, hasChanged) ==
  CASE step = "clone" -> "clone_checkout"
    [] step = "clone_checkout" -> IF hasChanged THEN "command" ELSE "done"
    [] step = "checkout" -> "remote_update"
    [] step = "remote_update" -> "rev_parse_local"
    [] step = "rev_parse_local" -> "rev_parse_upstream"
    [] step = "rev_parse_upstream" -> "pull"
    [] step = "pull" -> IF hasChanged THEN "command" ELSE "done"
    [] step = "command" -> "command"
    [] OTHER -> "done"

\* the statement executed after `step` returned Ok; "done" = return Ok(())
NextStep(step, hasChanged) ==
  CASE step = "clone" -> "clone_checkout"
    [] step = "clone_checkout" -> IF hasChanged THEN "command" ELSE "done"
    [] step = "checkout" -> "remote_update"
    [] step = "remote_update" -> "rev_parse_local"
    [] step = "rev_parse_local" -> "rev_parse_upstream"
    [] step = "rev_parse_upstream" -> "pull"
    [] step = "pull" -> IF hasChanged THEN "command" ELSE "done"
    [] OTHER -> "done"

\* the name each call site passes to run()
CommandName(step, project) ==
  CASE step = "clone" -> "git clone"
    [] step \in {"clone_checkout", "checkout"} -> "git checkout"
    [] step = "remote_update" -> "git remote update"
    [] step \in {"rev_parse_local", "rev_parse_upstream"} -> "git rev-parse"
    [] step = "pull" -> "git pull"
    [] OTHER -> project.command

\* the program each call site hands to Command::new
Program(step, git, project) == IF step = "command" THEN project.command ELSE git

\* the arguments each call site adds
Args(step, path, project) ==
  CASE step = "clone" -> <<"clone", GithubUrl(project.repo), path>>
    [] step \in {"clone_checkout", "checkout"} -> <<"checkout", project.branch>>
    [] step = "remote_update" -> <<"remote", "update">>
    [] step = "rev_parse_local" -> <<"rev-parse", "@">>
    [] step = "rev_parse_upstream" -> <<"rev-parse", "@{u}">>
    [] step = "pull" -> <<"pull">>
    [] OTHER -> <<>>

\* mutant: the post-update command is not given the project's directory
CwdNotForCommand(step, path) == IF step \in {"clone", "command"} THEN NoPath ELSE path

\* .current_dir(path) at every call site but git_clone
Cwd(step, path) == IF step = "clone" THEN NoPath ELSE path

\* mutant: spawn() in place of output(): run() returns without waiting
AfterSpawnNoWait(step) == [pc |-> NextStep(step, TRUE), blocked |-> FALSE]

\* mutant: the wait is given up, the update ends while the child runs
AfterSpawnTimeout(step) == [pc |-> "done", blocked |-> FALSE]

\* Command::output() returns only when the child has exited
AfterSpawn(step) == [pc |-> step, blocked |-> TRUE]

\* mutant: an Err leaves the loop, the executor thread ends
AfterRunStopOnError(res) == IF res.reason = "Ok" THEN "recv" ELSE "halt"

\* run(): both arms of the match return (), so start loops to recv again
AfterRun(res) == "recv"

\* mutant: a failed receive ends the loop
AfterRecvErrBreak == "halt"

\* start: the Err arm only logs, so the loop calls recv again
AfterRecvErr == "recv"

\* mutant: the newest item is taken
RecvItemNewest(q) == [item |-> q[Len(q)], rest |-> SubSeq(q, 1, Len(q) - 1)]

\* mutant: the item is read and left in the channel
RecvItemKept(q) == [item |-> Head(q), rest |-> q]

\* rx.recv(): the oldest item, removed from the channel
RecvItem(q) == [item |-> Head(q), rest |-> Tail(q)]

\* tx.send(id): the item goes to the back of the channel
SendItem(q, id) == Append(q, id)

\* ------------------------------------------------------------- environment
\* what a child prints on stdout when it exits zero
Stdout(c) ==
  CASE c.step = "rev_parse_local" -> local[c.project]
    [] c.step = "rev_parse_upstream" -> remoteRef[c.project]
    [] OTHER -> 0

\* a child can exit zero only where git could do its work: clone needs the
\* destination to be absent, every other step runs inside the directory
CanSucceed(c) ==
  IF c.step = "clone" THEN ~exists[c.project] ELSE exists[c.project]

\* the outputs a child may end with
Outputs(c) ==
  (IF CanSucceed(c) THEN {[status |-> 0, stdout |-> Stdout(c), stderr |-> ""]} ELSE {})
  \cup [status : ExitCodes, stdout : {0}, stderr : StderrBytes]

\* the effect on the working directory of a git command that exits zero
GitEffect(c) ==
  LET p == c.project IN
  CASE c.step = "clone" ->
         /\ exists' = [exists EXCEPT ![p] = TRUE]
         /\ head' = [head EXCEPT ![p] = DefaultBranch]
         /\ local' = [local EXCEPT ![p] = upstream[p]]
         /\ remoteRef' = [remoteRef EXCEPT ![p] = upstream[p]]
    [] c.step \in {"clone_checkout", "checkout"} ->
         /\ head' = [head EXCEPT ![p] = c.branch]
         /\ UNCHANGED <<exists, local, remoteRef>>
    [] c.step = "remote_update" ->
         /\ remoteRef' = [remoteRef EXCEPT ![p] = upstream[p]]
         /\ UNCHANGED <<exists, head, local>>
    [] c.step = "pull" ->
         /\ remoteRef' = [remoteRef EXCEPT ![p] = upstream[p]]
         /\ local' = [local EXCEPT ![p] = upstream[p]]
         /\ UNCHANGED <<exists, head>>
    [] OTHER -> UNCHANGED fsVars

\* ------------------------------------------------------------------- state
InitState ==
  /\ queue = <<>> /\ sent = <<>> /\ received = <<>> /\ closed = FALSE
  /\ pc = "recv" /\ blocked = FALSE /\ cur = "" /\ nUpdates = 0
  /\ running = {}
  /\ exists = [p \in ProjectIds |-> p = "web"]
  /\ head = [p \in ProjectIds |-> IF p = "web" THEN Project(p).branch ELSE ""]
  /\ local = [p \in ProjectIds |-> 0]
  /\ remoteRef = [p \in ProjectIds |-> 0]
  /\ upstream = [p \in ProjectIds |-> 0]
  /\ revLocal = 0 /\ revRemote = 0 /\ changed = FALSE /\ steps = <<>>
  /\ result = NoResult
  /\ lastOut = NoOutput
  /\ pre = [exists |-> exists, head |-> head, local |-> local]
  /\ stale = [p \in ProjectIds |-> NoMark]

\* the program as it is wired: location is a &str and a project is found by
\* comparing its id with a &str, so every computed path is valid UTF-8
Init == InitState /\ nonUtf8 = {}

\* update_repo, git_clone and git_checkout take any &Path: the paths that
\* have no UTF-8 form are an input
PathInit == InitState /\ nonUtf8 \in SUBSET {ProjectPath(Location, p) : p \in ProjectIds}

\* update_repo / update_project return `res`; run() logs an Err
Finish(res) ==
  /\ pc' = "done"
  /\ blocked' = FALSE
  /\ result' = res

\* ----------------------------------------------------------------- actions
\* a handler thread of the listener sends an identifier
Send(id) ==
  /\ ~closed
  /\ Len(sent) < MaxSends
  /\ queue' = SendItem(queue, id)
  /\ sent' = Append(sent, id)
  /\ UNCHANGED <<received, closed, pc, blocked, cur, nUpdates, running, fsVars,
                 upstream, revLocal, revRemote, changed, steps, result, lastOut, pre, stale, nonUtf8>>

\* every Sender is dropped
DropSenders ==
  /\ ~closed
  /\ closed' = TRUE
  /\ UNCHANGED <<queue, sent, received, pc, blocked, cur, nUpdates, running,
                 fsVars, upstream, revLocal, revRemote, changed, steps, result, lastOut, pre, stale, nonUtf8>>

\* the number of commits pushed so far
RECURSIVE Pushed(_)
Pushed(ps) ==
  IF ps = {} THEN 0
  ELSE LET p == CHOOSE q \in ps : TRUE IN upstream[p] + Pushed(ps \ {p})

\* a commit is pushed to the tracked branch on github
Push(p) ==
  /\ Pushed(ProjectIds) < MaxCommit
  /\ upstream' = [upstream EXCEPT ![p] = @ + 1]
  /\ UNCHANGED <<chanVars, pc, blocked, cur, nUpdates, running, fsVars,
                 revLocal, revRemote, changed, steps, result, lastOut, pre, stale, nonUtf8>>

\* start: self.rx.recv() returns Ok(repo)
Recv ==
  /\ pc = "recv"
  /\ queue # <<>>
  /\ LET r == RecvItem(queue) IN
       /\ cur' = r.item
       /\ queue' = r.rest
       /\ received' = Append(received, r.item)
  /\ pc' = "run"
  /\ result' = NoResult
  /\ UNCHANGED <<sent, closed, blocked, nUpdates, running, fsVars, upstream,
                 revLocal, revRemote, changed, steps, lastOut, pre, stale, nonUtf8>>

\* start: self.rx.recv() returns Err, which is logged; the loop goes on
RecvErr ==
  /\ pc = "recv"
  /\ queue = <<>>
  /\ closed
  /\ result' = RecvError
  /\ pc' = AfterRecvErr
  /\ UNCHANGED <<chanVars, blocked, cur, nUpdates, running, fsVars,
                 upstream, revLocal, revRemote, changed, steps, lastOut, pre, stale, nonUtf8>>

\* run(repo) -> update_repo(repo) -> get_project, update_project up to the
\* path.exists() test
RunUpdate ==
  /\ pc = "run"
  /\ nUpdates' = nUpdates + 1
  /\ pre' = [exists |-> exists, head |-> head, local |-> local]
  /\ steps' = <<>>
  /\ changed' = FALSE
  /\ revLocal' = 0
  /\ revRemote' = 0
  /\ lastOut' = NoOutput
  /\ LET project == GetProject(Conf, cur) IN
       IF project = NoProject
       THEN Finish(AppError("InvalidRepository", "No repository found"))
       ELSE /\ pc' = FirstStep(exists[project.id])
            /\ UNCHANGED <<blocked, result>>
  /\ UNCHANGED <<chanVars, cur, running, fsVars, upstream, stale, nonUtf8>>

\* run(): the command of the current step is launched
Spawn(launched) ==
  /\ pc \in Steps
  /\ ~blocked
  /\ LET project == GetProject(Conf, cur)
         path == ProjectPath(Conf.location, project.id)
         child == [step |-> pc, cmd |-> CommandName(pc, project),
                   cwd |-> Cwd(pc, path), project |-> project.id,
                   branch |-> project.branch, upd |-> nUpdates]
     IN
       IF pc = "clone" /\ ~PathToStrOk(path)
       THEN /\ Finish(AppError("InvalidPath", "Invalid project path"))
            /\ UNCHANGED <<running, steps>>
       ELSE /\ steps' = Append(steps,
                 [step |-> pc, cmd |-> child.cmd, cwd |-> child.cwd,
                  program |-> Program(pc, Conf.gitpath, project),
                  args |-> Args(pc, path, project),
                  how |-> IF launched THEN "running" ELSE "not launched"])
            /\ IF launched
               THEN /\ running' = running \cup {child}
                    /\ pc' = AfterSpawn(pc).pc
                    /\ blocked' = AfterSpawn(pc).blocked
                    /\ UNCHANGED result
               ELSE /\ Finish(IoError(child.cmd))
                    /\ UNCHANGED running
  /\ UNCHANGED <<chanVars, cur, nUpdates, fsVars, upstream, revLocal, revRemote, changed, lastOut, pre, stale, nonUtf8>>

\* a child exits with `out`; the run() waiting for it returns
ChildExit(c, out) ==
  /\ c \in running
  /\ out \in Outputs(c)
  /\ running' = running \ {c}
  /\ lastOut' = out
  /\ IF out.status = 0 THEN GitEffect(c) ELSE UNCHANGED fsVars
  /\ IF blocked /\ c.step = pc /\ c.upd = nUpdates
     THEN LET r == NonZeroToError(c.cmd, out)
              ch == ChangedAfter(pc, changed, revLocal, r.stdout)
          IN /\ steps' = [steps EXCEPT ![Len(steps)].how =
                                 IF out.status = 0 THEN "exit 0" ELSE "exit non-zero"]
             /\ IF r.ok
                THEN /\ changed' = ch
                     /\ revLocal' = IF pc = "rev_parse_local" THEN r.stdout ELSE revLocal
                     /\ revRemote' = IF pc = "rev_parse_upstream" THEN r.stdout ELSE revRemote
                     /\ IF NextStep(pc, ch) = "done"
                        THEN Finish(OkResult)
                        ELSE /\ pc' = NextStep(pc, ch)
                             /\ blocked' = FALSE
                             /\ UNCHANGED result
                ELSE /\ Finish(r.err)
                     /\ UNCHANGED <<changed, revLocal, revRemote>>
     ELSE UNCHANGED <<pc, blocked, result, changed, revLocal, revRemote, steps>>
  /\ UNCHANGED <<chanVars, cur, nUpdates, upstream, pre, stale, nonUtf8>>

\* history: what the update that ends leaves to be built in its working
\* directory: nothing once the command has exited zero; else the cloned tip
\* ("partial": the clone exited zero, a later step failed), or the tip a
\* pull brought in, with the comparison having found a change ("failed":
\* the command did not exit zero) or none ("raced": no command was due)
MarkAfter ==
  LET did(name) == \E i \in DOMAIN steps : steps[i].step = name /\ steps[i].how = "exit 0" IN
  IF did("command") THEN NoMark
  ELSE IF did("clone") THEN [kind |-> "partial", tip |-> local[cur]]
  ELSE IF did("pull") /\ local[cur] # pre.local[cur]
       THEN [kind |-> IF changed THEN "failed" ELSE "raced", tip |-> local[cur]]
  ELSE stale[cur]

\* run() has returned: back to the top of the loop in start
Loop ==
  /\ pc = "done"
  /\ pc' = AfterRun(result)
  /\ lastOut' = NoOutput
  /\ cur' = ""
  /\ steps' = <<>>
  /\ changed' = FALSE
  /\ revLocal' = 0
  /\ revRemote' = 0
  /\ result' = NoResult
  /\ pre' = [exists |-> exists, head |-> head, local |-> local]
  /\ stale' = IF cur \in ProjectIds
              THEN [stale EXCEPT ![cur] = MarkAfter]
              ELSE stale
  /\ UNCHANGED <<chanVars, blocked, nUpdates, running, fsVars, upstream, nonUtf8>>

Executor ==
  \/ Recv
  \/ RecvErr
  \/ RunUpdate
  \/ \E launched \in BOOLEAN : Spawn(launched)
  \/ \E c \in running : \E out \in Outputs(c) : ChildExit(c, out)
  \/ Loop

Next ==
  \/ \E id \in Identifiers : Send(id)
  \/ DropSenders
  \/ \E p \in ProjectIds : Push(p)
  \/ Executor

Spec == Init /\ [][Next]_vars

\* the same program with the paths' encoding as an input
PathSpec == PathInit /\ [][Next]_vars

TypeOK ==
  /\ pc \in {"recv", "run", "done"} \cup Steps
  /\ lastOut \in [status : {0} \cup ExitCodes, stdout : Revisions, stderr : {""} \cup StderrBytes]
  /\ blocked \in BOOLEAN
  /\ Len(sent) <= MaxSends
  /\ \A p \in ProjectIds : local[p] \in Revisions /\ upstream[p] \in Revisions
  /\ stale \in [ProjectIds -> [kind : {"", "partial", "failed", "raced"}, tip : Revisions]]

\* the executor thread runs whenever it can, and every child exits
FairSpec == Spec /\ WF_vars(Executor)

\* ------------------------------------------------------------------ claims
\* number of updates that have run to their end
Completed == IF pc \in Steps THEN nUpdates - 1 ELSE nUpdates

\* C1: at most one subprocess runs at any instant, whatever the project; the
\* running child belongs to the update of the item received last, and no
\* child of an earlier update is alive when the next item is received or its
\* update starts.
C1_GlobalSerialization ==
  /\ Cardinality(running) <= 1
  /\ \A c \in running :
       /\ c.upd = Len(received)
       /\ c.project = cur
       /\ c.step = pc /\ blocked
  /\ pc \in {"recv", "run", "done"} => running = {}
  /\ nUpdates = IF pc = "run" THEN Len(received) - 1 ELSE Len(received)

C1_Witness ==
  /\ received = <<"svc", "web">>
  /\ \E c \in running : c.project = "web" /\ c.upd = 2

\* C2: whatever an update ended with, the executor goes on: the k-th item
\* sent is received and its update runs to its end, for every k, provided
\* every child exits.
C2_FailureIsolation ==
  \A k \in 1..MaxSends : (Len(sent) >= k) ~> (Completed >= k)

\* the clone of svc has failed, and the update of web that follows succeeds
C2_Witness ==
  /\ received = <<"svc", "web">>
  /\ ~exists["svc"]
  /\ pc = "done" /\ cur = "web"
  /\ result.reason = "Ok"

\* ---- the history of the current update
StepCount(name) == Cardinality({i \in DOMAIN steps : steps[i].step = name})
Tried(name) == StepCount(name) > 0
Succeeded(name) == \E i \in DOMAIN steps : steps[i].step = name /\ steps[i].how = "exit 0"
LastStep == steps[Len(steps)].step
InUpdate == pc \in Steps \cup {"done"} /\ cur \in ProjectIds
CurPath == ProjectPath(Location, cur)
\* the update started with no working directory / with one
StartedAbsent == InUpdate /\ ~pre.exists[cur]
StartedPresent == InUpdate /\ pre.exists[cur]
\* the update ended with a failure of a git step
GitStepFailed ==
  /\ pc = "done" /\ cur \in ProjectIds
  /\ result.reason # "Ok"
  /\ steps # <<>> => LastStep \in GitSteps
\* both rev-parse have returned and the tips they printed are equal / differ
TipsEqualAtComparison == InUpdate /\ Succeeded("rev_parse_upstream") /\ revLocal = revRemote
TipsDifferAtComparison == InUpdate /\ Succeeded("rev_parse_upstream") /\ revLocal # revRemote
\* until the pull returns, what was compared are the tips of the directory
ComparedTheTips ==
  (InUpdate /\ pc = "pull") => revLocal = local[cur] /\ revRemote = remoteRef[cur]

\* every command of the current update could be launched
AllLaunched == \A i \in DOMAIN steps : steps[i].how # "not launched"

\* C3 as stated: after any update of a project that had no working
\* directory, the directory exists on the configured branch and the command
\* was invoked exactly once (here: in the updates whose commands could all
\* be launched).
C3_AsStated ==
  (StartedAbsent /\ pc = "done" /\ AllLaunched) =>
    /\ exists[cur]
    /\ head[cur] = Project(cur).branch
    /\ StepCount("command") = 1

\* C3 amended: after an update of a project that had no working directory in
\* which no git step failed, clone and checkout have exited zero, the
\* directory exists on the configured branch and the command was invoked
\* exactly once; on this path changed is true whenever the git steps return,
\* and neither rev-parse, remote update nor pull is invoked.
C3_FreshClone ==
  StartedAbsent =>
    /\ \A i \in DOMAIN steps : steps[i].step \in {"clone", "clone_checkout", "command"}
    /\ StepCount("clone") <= 1 /\ StepCount("clone_checkout") <= 1
    /\ Succeeded("clone_checkout") => changed
    /\ (pc = "done" /\ ~GitStepFailed) =>
         /\ Succeeded("clone") /\ Succeeded("clone_checkout")
         /\ changed
         /\ exists[cur]
         /\ head[cur] = Project(cur).branch
         /\ StepCount("command") = 1

\* the example of the spec: svc is cloned from github into /srv/repos/svc,
\* its branch is checked out and ./deploy.sh runs in /srv/repos/svc
C3_Witness ==
  /\ StartedAbsent /\ pc = "done" /\ result.reason = "Ok"
  /\ Succeeded("clone") /\ Succeeded("clone_checkout") /\ Succeeded("command")
  /\ steps[1].args = <<"clone", <<"https://github.com/", "acme/svc", ".git">>,
                       <<"/srv/repos", "svc">>>>
  /\ steps[2].args = <<"checkout", "deploy">>
  /\ steps[3].program = "./deploy.sh" /\ steps[3].cwd = <<"/srv/repos", "svc">>

\* C4 as stated: when the tips compared are equal, the command is not
\* invoked, the pull is executed and the update ends as a success (here: in
\* the updates whose commands could all be launched).
C4_AsStated ==
  (TipsEqualAtComparison /\ pc = "done" /\ AllLaunched) =>
    /\ StepCount("command") = 0
    /\ Tried("pull")
    /\ result.reason = "Ok"

\* C4 amended: when the tips compared after the remote refresh are equal, the
\* command is never invoked in that update and the pull is still executed;
\* the update ends as a success if the pull exits zero, and with the pull's
\* failure otherwise.
C4_NoChange ==
  /\ ComparedTheTips
  /\ TipsEqualAtComparison =>
       /\ StartedPresent
       /\ pc \in {"pull", "done"}
       /\ ~changed
       /\ StepCount("command") = 0
       /\ pc = "done" =>
            /\ StepCount("pull") = 1
            /\ result.reason = "Ok" <=> Succeeded("pull")
            /\ result.reason # "Ok" => LastStep = "pull" /\ result.reason \in {"CommandFailed", "Io"}

C4_Witness ==
  /\ TipsEqualAtComparison /\ pc = "done" /\ result.reason = "Ok"
  /\ Succeeded("pull")

\* C5 as stated: when the tips compared differ, pull is invoked and the
\* command is invoked exactly once, in the project's directory (here: in the
\* updates whose commands could all be launched).
C5_AsStated ==
  (TipsDifferAtComparison /\ pc = "done" /\ AllLaunched) =>
    /\ Tried("pull")
    /\ StepCount("command") = 1
    /\ \A i \in DOMAIN steps : steps[i].step = "command" => steps[i].cwd = CurPath

\* C5 amended: when the tips compared differ, pull is invoked, and if it exits
\* zero the command is invoked exactly once in that update, with current
\* directory location/id.
C5_Changed ==
  /\ (InUpdate /\ pc = "pull") => (changed <=> local[cur] # remoteRef[cur])
  /\ TipsDifferAtComparison =>
       /\ StartedPresent
       /\ changed
       /\ pc \in {"pull", "command", "done"}
       /\ pc = "done" => StepCount("pull") = 1
       /\ (pc = "done" /\ Succeeded("pull")) =>
            /\ StepCount("command") = 1
            /\ \A i \in DOMAIN steps :
                 steps[i].step = "command" =>
                   /\ steps[i].cwd = <<Location, cur>>
                   /\ steps[i].cmd = Project(cur).command

C5_Witness ==
  /\ TipsDifferAtComparison /\ pc = "done" /\ result.reason = "Ok"
  /\ Succeeded("pull") /\ Succeeded("command")
  /\ local[cur] = upstream[cur] /\ local[cur] # pre.local[cur]

\* C6: an identifier that matches no project is consumed, InvalidRepository
\* is reported, no subprocess is invoked for it, no working directory changes
\* and the executor is ready to go to the next item.
C6_UnknownIdentifier ==
  (pc \in Steps \cup {"done"} /\ cur \notin ProjectIds) =>
    /\ pc = "done"
    /\ result = AppError("InvalidRepository", "No repository found")
    /\ steps = <<>> /\ running = {} /\ lastOut = NoOutput
    /\ exists = pre.exists /\ head = pre.head /\ local = pre.local
    /\ received[Len(received)] = cur
    /\ Len(sent) = Len(received) + Len(queue)
    /\ ENABLED Loop

C6_Witness ==
  /\ pc = "done" /\ cur = UnknownId
  /\ result.reason = "InvalidRepository"
  /\ queue # <<>>

\* C7: as soon as a subprocess of an update exits non-zero, the update is over:
\* CommandFailed is reported with the name of that command, its exit status
\* and its stderr text (the "[invalid string]" placeholder when stderr is not
\* UTF-8), that command is the last one invoked and the only one that failed.
C7_ShortCircuit ==
  /\ lastOut.status # 0 =>
       /\ pc = "done"
       /\ running = {}
       /\ result.reason = "CommandFailed"
       /\ result.status = lastOut.status
       /\ result.text = (IF lastOut.stderr = BadUtf8 THEN "[invalid string]" ELSE lastOut.stderr)
       /\ result.cmd = steps[Len(steps)].cmd
       /\ steps[Len(steps)].how = "exit non-zero"
  /\ \A i \in DOMAIN steps : steps[i].how \in {"exit non-zero", "not launched"} =>
       /\ i = Len(steps)
       /\ pc = "done"
       /\ result.reason \in {"CommandFailed", "Io"}
  /\ (pc = "done" /\ result.reason = "CommandFailed") => lastOut.status # 0

C7_Witness ==
  /\ pc = "done" /\ result.reason = "CommandFailed"
  /\ LastStep = "remote_update" /\ result.status = 128
  /\ result.text = "[invalid string]"

\* the items of `seq` at the positions `mine`, the arrivals of one producer
OfProducer(seq, mine) ==
  SelectSeq([i \in DOMAIN seq |-> <<i, seq[i]>>], LAMBDA x : x[1] \in mine)
IsPrefix(a, b) == Len(a) <= Len(b) /\ a = SubSeq(b, 1, Len(a))

\* C8: the identifiers are received in the order of their arrival at the
\* channel; whichever of the arrivals are those of one producer, they are
\* received in that producer's order.
C8_Fifo ==
  /\ IsPrefix(received, sent)
  /\ \A mine \in SUBSET (1..Len(sent)) :
       IsPrefix(OfProducer(received, mine), OfProducer(sent, mine))

C8_Witness ==
  /\ sent = <<"web", "svc">>
  /\ received = <<"web", "svc">>
  /\ pc = "clone"

\* C9: every item sent is received exactly once or still queued, duplicates
\* included, and run() is called once for each item received.
C9_ExactlyOnce ==
  /\ sent = received \o queue
  /\ nUpdates = IF pc = "run" THEN Len(received) - 1 ELSE Len(received)
  /\ pc \in Steps \cup {"run", "done"} => cur = received[Len(received)]

C9_Witness ==
  /\ sent = <<"web", "web">>
  /\ nUpdates = 2 /\ queue = <<>> /\ pc = "done"

\* C10 as stated: when a git step of an update fails, the project's
\* Absent/Present status and local tip are what they were when the update
\* started (here: in the updates whose commands could all be launched).
C10_AsStated ==
  (GitStepFailed /\ AllLaunched) => exists[cur] = pre.exists[cur] /\ local[cur] = pre.local[cur]

\* C10 amended: when a git step of an update fails, the failure is what the
\* update returns and the failed step has changed nothing: the project's
\* status and tracked tip are what they were when the update started, unless
\* the failed step is the checkout after a successful clone, in which case
\* the directory now exists at the cloned tip; no other project is touched.
C10_StateOnGitFailure ==
  GitStepFailed =>
    /\ result.reason \in {"CommandFailed", "Io", "InvalidPath"}
    /\ \A p \in ProjectIds \ {cur} :
         exists[p] = pre.exists[p] /\ local[p] = pre.local[p] /\ head[p] = pre.head[p]
    /\ IF Succeeded("clone")
       THEN /\ ~pre.exists[cur] /\ exists[cur]
            /\ LastStep = "clone_checkout"
            /\ head[cur] = DefaultBranch
            /\ local[cur] = remoteRef[cur]
       ELSE exists[cur] = pre.exists[cur] /\ local[cur] = pre.local[cur]

C10_Witness ==
  /\ GitStepFailed /\ StartedPresent /\ LastStep = "pull"
  /\ local[cur] # upstream[cur] /\ changed

\* the executor's own state
execVars == <<pc, blocked, cur, nUpdates, running, steps, received, queue>>

\* C11: once every sender is gone the executor still receives and processes
\* every item sent before; then each receive fails, the failure is logged and
\* the receive is attempted again, for ever: the executor stays at recv, it
\* invokes no subprocess and it never stops.
C11_QueueClosure ==
  /\ [](result = RecvError =>
          /\ closed /\ queue = <<>>
          /\ received = sent /\ nUpdates = Len(sent)
          /\ pc = "recv" /\ running = {} /\ steps = <<>>
          /\ ENABLED RecvErr)
  /\ []((closed /\ queue # <<>> /\ pc = "recv") => (ENABLED Recv /\ ~ENABLED RecvErr))
  /\ [][result = RecvError => (result' = RecvError /\ UNCHANGED execVars)]_vars
  /\ closed ~> (result = RecvError)

C11_Witness ==
  /\ result = RecvError
  /\ sent = <<"svc", UnknownId>>
  /\ exists["svc"]

\* the step of position i did not return Ok
FailedAt(i) == steps[i].how \in {"exit non-zero", "not launched"}

\* C12: nothing is tried again within one request: every step, the
\* post-update command included, is invoked at most once per update; a step
\* that failed is the last step of its update; a non-zero exit of the
\* post-update command ends the update with CommandFailed naming the command.
C12_NoRetry ==
  InUpdate =>
    /\ \A s \in Steps : StepCount(s) <= 1
    /\ \A i \in DOMAIN steps : FailedAt(i) =>
         /\ i = Len(steps)
         /\ pc = "done"
         /\ result.reason \in {"CommandFailed", "Io"}
    /\ \A i \in DOMAIN steps :
         (steps[i].step = "command" /\ steps[i].how = "exit non-zero") =>
           /\ result = OutputToError(Project(cur).command, lastOut)
           /\ lastOut.status # 0

C12_Witness ==
  /\ InUpdate /\ pc = "done"
  /\ LastStep = "command" /\ steps[Len(steps)].how = "exit non-zero"
  /\ result.reason = "CommandFailed" /\ result.cmd = "./build.sh"
  /\ Len(steps) = 6

\* the steps of an update of an existing working directory, in their order
PresentOrder ==
  <<"checkout", "remote_update", "rev_parse_local", "rev_parse_upstream", "pull", "command">>

\* C13: an update of an existing working directory runs checkout, remote
\* update, rev-parse @, rev-parse @{u}, pull in this order, each only after
\* the one before exited zero; the pull is run whatever the comparison said;
\* the command is run after a successful pull exactly when the tips compared
\* BEFORE the pull differed.
C13_PresentOrder ==
  StartedPresent =>
    /\ Len(steps) <= Len(PresentOrder)
    /\ \A i \in DOMAIN steps :
         /\ steps[i].step = PresentOrder[i]
         /\ i < Len(steps) => steps[i].how = "exit 0"
    /\ (pc \in Steps /\ ~blocked) => pc = PresentOrder[Len(steps) + 1]
    /\ Len(steps) >= 3 => steps[3].args = <<"rev-parse", "@">>
    /\ Len(steps) >= 4 => steps[4].args = <<"rev-parse", "@{u}">>
    /\ (pc = "done" /\ Succeeded("rev_parse_upstream")) => Tried("pull")
    /\ Succeeded("rev_parse_upstream") => changed = (revLocal # revRemote)
    /\ (pc = "done" /\ Succeeded("pull")) => (Tried("command") <=> revLocal # revRemote)
    /\ Tried("command") => Succeeded("pull")

\* the command was run although the tips are equal once the pull is done
C13_Witness ==
  /\ StartedPresent /\ pc = "done"
  /\ Len(steps) = 6 /\ Succeeded("command")
  /\ revLocal # revRemote
  /\ local[cur] = remoteRef[cur]

\* the comparison of the current update found the tips equal, its pull has
\* been launched and has not returned, and github is ahead of the directory
RacedBeforePull ==
  /\ InUpdate /\ pc = "pull" /\ blocked
  /\ revLocal = revRemote
  /\ upstream[cur] # local[cur]
\* the pull of the current update returns in this step
PullReturns == pc = "pull" /\ blocked /\ pc' # "pull"
\* the project of the current update carries the mark `kind` and github has
\* had no commit since the marked tip was brought in
NothingNewSince(kind) ==
  /\ InUpdate
  /\ stale[cur].kind = kind
  /\ upstream[cur] = stale[cur].tip
\* the command is not run, and the comparison, once made, finds equal tips
SkipsTheCommand ==
  /\ StartedPresent
  /\ ~Tried("command") /\ pc # "command"
  /\ Succeeded("rev_parse_upstream") => revLocal = revRemote
\* the update after a race: the command is neither run in the update whose
\* pull brought the commits in nor in a following one with nothing new
AfterRace ==
  /\ (StartedPresent /\ Succeeded("pull") /\ revLocal = revRemote) =>
       /\ ~Tried("command")
       /\ pc = "done" /\ result = OkResult
  /\ NothingNewSince("raced") => (SkipsTheCommand /\ local[cur] = stale[cur].tip)

C15_RevParseFailure ==
  \A i \in DOMAIN steps :
    (steps[i].step \in {"rev_parse_local", "rev_parse_upstream"}
       /\ steps[i].how = "exit non-zero") =>
      /\ StartedPresent
      /\ i = Len(steps)
      /\ pc = "done"
      /\ result = OutputToError("git rev-parse", lastOut)
      /\ result.reason = "CommandFailed"
      /\ ~Tried("pull") /\ ~Tried("command")
      /\ steps[i].step = "rev_parse_local" => ~Tried("rev_parse_upstream")

\* rev-parse @{u} failed while there was a commit to pull
C15_Witness ==
  /\ StartedPresent /\ pc = "done"
  /\ LastStep = "rev_parse_upstream" /\ steps[Len(steps)].how = "exit non-zero"
  /\ result.reason = "CommandFailed"
  /\ remoteRef[cur] # local[cur]

\* no step of the executor but the wait for its child is possible
OnlyWaiting ==
  /\ blocked /\ pc \in Steps
  /\ ~ENABLED Recv /\ ~ENABLED RecvErr /\ ~ENABLED RunUpdate /\ ~ENABLED Loop
  /\ ~ENABLED (\E launched \in BOOLEAN : Spawn(launched))

\* C16: there is no timeout and no cancellation. While the child of the
\* current step runs the executor can only wait for it; as long as it has not
\* exited the executor stays in that update, no later item is received, and
\* producers can still enqueue; an update is left only by a step that
\* returned (a child that exited, or a command that could not be launched).
C16_HungStep ==
  /\ [](running # {} => OnlyWaiting)
  /\ [][(running # {} /\ running' = running) =>
          UNCHANGED <<pc, blocked, cur, nUpdates, received, steps, result, fsVars>>]_vars
  /\ [][(pc \in Steps /\ pc' \notin Steps) =>
          /\ pc' = "done"
          /\ steps' # <<>> => steps'[Len(steps')].how \in {"exit 0", "exit non-zero", "not launched"}
          /\ running' = {}]_vars
  /\ []((running # {} /\ ~closed /\ Len(sent) < MaxSends) =>
          ENABLED (\E id \in Identifiers : Send(id)))

\* a child runs, a later item has been enqueued meanwhile and waits
C16_Witness ==
  /\ running # {} /\ blocked
  /\ \E c \in running : c.step = "remote_update"
  /\ Len(received) = 1 /\ Len(queue) = 1

\* the path of the current update has no UTF-8 form
PathNotUtf8 == InUpdate /\ CurPath \in nonUtf8

AbsentGit == {"clone", "clone_checkout"}
PresentGit == {"checkout", "remote_update", "rev_parse_local", "rev_parse_upstream", "pull"}
\* the git steps of the current update that exited zero
GitDone == {steps[i].step : i \in {j \in DOMAIN steps : steps[j].step \in GitSteps /\ steps[j].how = "exit 0"}}

\* C18: the post-update command is the last step of an update: it is invoked
\* (and its invocation is reached) only after every git step of the update's
\* branch has exited zero, no step follows it, and after a git step that
\* failed it is not invoked, a pull failing after a change was seen included.
C18_CommandLast ==
  InUpdate =>
    /\ (Tried("command") \/ pc = "command") =>
         GitDone = IF pre.exists[cur] THEN PresentGit ELSE AbsentGit
    /\ \A i \in DOMAIN steps : steps[i].step = "command" =>
         /\ i = Len(steps)
         /\ \A j \in 1..(i - 1) : steps[j].step \in GitSteps /\ steps[j].how = "exit 0"
    /\ \A i \in DOMAIN steps : (steps[i].step \in GitSteps /\ FailedAt(i)) =>
         (~Tried("command") /\ pc = "done" /\ result.reason # "Ok")

\* the comparison saw a change, the pull failed, the command was not run
C18_Witness ==
  /\ StartedPresent /\ pc = "done"
  /\ changed /\ revLocal # revRemote
  /\ LastStep = "pull" /\ steps[Len(steps)].how = "exit non-zero"
  /\ ~Tried("command")
  /\ result.reason = "CommandFailed"

\* the update that ends pulled new commits and its command did not exit zero
PulledAndCommandFailed ==
  /\ StartedPresent /\ pc = "done"
  /\ Succeeded("pull") /\ revLocal # revRemote
  /\ Tried("command") /\ ~Succeeded("command")

\* C19: a post-update command that failed is not made up for. The update
\* that pulled new commits and whose command failed ends as a failure with
\* the local tip advanced; every later update of the project that finds no
\* further commit on github skips the command, its comparison finding equal
\* tips; the commits stay without a successful run until github has a new one.
C19_FailedCommandNotMadeUp ==
  /\ [](PulledAndCommandFailed =>
          /\ result.reason \in {"CommandFailed", "Io"}
          /\ local[cur] # pre.local[cur])
  /\ [](NothingNewSince("failed") => (SkipsTheCommand /\ local[cur] = stale[cur].tip))
  /\ [][\A p \in ProjectIds :
          (stale[p].kind = "failed" /\ stale'[p] # stale[p]) => upstream[p] # stale[p].tip]_vars

\* the update after the one whose command failed has ended without the command
C19_Witness ==
  /\ NothingNewSince("failed")
  /\ pc = "done" /\ result = OkResult
  /\ Succeeded("pull") /\ ~Tried("command")
  /\ local[cur] = upstream[cur] /\ local[cur] = 1

\* C20: the branch an update takes is decided by the existence of
\* location/id when the update starts, and the directory is never removed.
\* So after an update whose clone exited zero and whose checkout or command
\* then failed, every later update of the project is an update of an
\* existing directory: no clone, and the command only when the comparison
\* found different tips.
C20_PresentAfterPartialClone ==
  /\ [][\A p \in ProjectIds : exists[p] => exists'[p]]_vars
  /\ []((InUpdate /\ pc \in Steps /\ steps = <<>>) =>
          pc = IF pre.exists[cur] THEN "checkout" ELSE "clone")
  /\ []((InUpdate /\ steps # <<>>) =>
          steps[1].step = IF pre.exists[cur] THEN "checkout" ELSE "clone")
  /\ [](\A p \in ProjectIds : stale[p].kind = "partial" => exists[p])
  /\ []((InUpdate /\ stale[cur].kind = "partial") =>
          /\ StartedPresent
          /\ ~Tried("clone") /\ ~Tried("clone_checkout")
          /\ (Tried("command") \/ pc = "command") => TipsDifferAtComparison)

\* after a clone whose checkout failed, the next update of the project has
\* run as an update of an existing directory and ended without the command
C20_Witness ==
  /\ InUpdate /\ stale[cur].kind = "partial"
  /\ pre.head[cur] = DefaultBranch
  /\ pc = "done" /\ result = OkResult
  /\ Len(steps) = 5 /\ ~Tried("command")

====
